---- MODULE Spec2Model ----
(***************************************************************************)
(* The multi-provider image-generation fan-out of useImageGeneration:      *)
(* the hook's five state cells, the startGeneration calls in flight with   *)
(* the position of each per-provider generateImage unit, and the external  *)
(* image endpoint as a nondeterministic environment.                       *)
(*                                                                         *)
(* Every action is one run-to-completion piece of the JavaScript event     *)
(* loop: the synchronous prefix of startGeneration, the settlement of one  *)
(* fetch, the continuation of one generateImage after its awaits, the      *)
(* continuation of startGeneration after `await Promise.all`, one call of  *)
(* resetState.  React state cells are modelled by their committed value;   *)
(* functional updates (setX(prev => ...)) read the committed value.        *)
(***************************************************************************)
EXTENDS Integers, Sequences, FiniteSets, TLC

\* ------------------------------------------------------------------ bounds
\* Number of startGeneration calls that may be in flight at once.
MaxInFlight == 2
\* Largest value Date.now() takes.
MaxClock == 1

\* --------------------------------------------------------------- universes
\* The Provider Registry: the fixed universe of provider identifiers.
ProviderKeys == {"alpha", "beta"}
\* JavaScript null (ImageResult.image of a slot without an image).
Null == "null"
\* JavaScript undefined as the value of a field of the response body.
Undefined == "undefined"
\* JavaScript undefined as the value of a slot of the timings record.
UndefinedTiming == [undefined |-> TRUE]
\* The `providers` arguments: selection orders without repetition, the empty
\* selection included (the source accepts it silently).
Selections ==
  {<<>>} \cup {<<p>> : p \in ProviderKeys}
         \cup {s \in {<<p, q>> : p \in ProviderKeys, q \in ProviderKeys} : s[1] # s[2]}
\* The `providerToModel` arguments: the caller binds each provider to the
\* model chosen for it.
ModelMaps == { [p \in ProviderKeys |-> IF p = "alpha" THEN "m1" ELSE "m2"] }

\* What one call of the image endpoint can come back with:
\*   rejected  - fetch() itself rejects with an Error (network failure)
\*   response  - an HTTP response; `parses` tells whether response.json()
\*               succeeds, `error` and `image` are the body's fields
\* The outcomes enumerated are the three that take different paths through
\* generateImage and leave different values in the state: a non-2xx response
\* that carries an error text, a 2xx response with an image, and a 2xx
\* response whose body has no image field (the `?? null` of the source).  A
\* rejected fetch or an unparsable body takes the same catch path as the
\* non-2xx response, with another message.
Responses ==
  { [kind |-> "response", ok |-> FALSE, status |-> 429, parses |-> TRUE,
     error |-> "rate limited", image |-> Undefined],
    [kind |-> "response", ok |-> TRUE,  status |-> 200, parses |-> TRUE,
     error |-> Undefined, image |-> "url1"],
    [kind |-> "response", ok |-> TRUE,  status |-> 200, parses |-> TRUE,
     error |-> Undefined, image |-> Undefined] }

Range(s) == {s[i] : i \in DOMAIN s}

\* ------------------------------------------------------------------- state
VARIABLES
  images,           \* ImageResult[]: <<[provider, image, modelId], ...>>
  errors,           \* ImageError[]:  <<[provider, message], ...>>
  timings,          \* Record<ProviderKey, ProviderTiming>
  failedProviders,  \* ProviderKey[]
  isLoading,        \* boolean
  clock,            \* the value Date.now() returns
  rounds,           \* startGeneration calls in flight, by call slot: the
                    \* call's arguments, its `now`, the state of each unit's
                    \* promise, and the history field `alone` (no other
                    \* startGeneration or resetState call since this call
                    \* started, and none was in flight then)
  errRound,         \* history: errRound[i] is the call whose unit appended errors[i]
  wasReset,         \* history: the step taken last was resetState
  discarded         \* history: the latest startGeneration call found errors
                    \* non-empty (and no resetState came after it)

vars == <<images, errors, timings, failedProviders, isLoading,
          clock, rounds, errRound, wasReset, discarded>>

\* ------------------------------------------------------- Provider Registry
\* initializeProviderRecord<V>() without a default: every registered
\* provider bound to undefined.
initializeProviderRecord == [p \in ProviderKeys |-> UndefinedTiming]

\* ------------------------------------------------------------ pure helpers
\* providers.map(provider => ({provider, image: null, modelId: providerToModel[provider]}))
InitialImages(providers, providerToModel) ==
  [i \in 1..Len(providers) |->
     [provider |-> providers[i], image |-> Null,
      modelId |-> providerToModel[providers[i]]]]

\* InitialTimings with the previous record spread in first.
InitialTimingsMerged(providers, now) ==
  [p \in DOMAIN timings \cup Range(providers) |->
     IF p \in Range(providers) THEN [startTime |-> now] ELSE timings[p]]

\* Object.fromEntries(providers.map(provider => [provider, {startTime: now}]))
InitialTimings(providers, now) ==
  [p \in Range(providers) |-> [startTime |-> now]]

\* SuccessTiming that forgets to subtract the start time.
SuccessTimingNoSubtract(startTime, completionTime) ==
  [startTime |-> startTime, completionTime |-> completionTime,
   elapsed |-> completionTime]

\* {startTime, completionTime, elapsed} with elapsed = completionTime - startTime
SuccessTiming(startTime, completionTime) ==
  [startTime |-> startTime, completionTime |-> completionTime,
   elapsed |-> completionTime - startTime]

\* {...prev, [provider]: t}
SpreadTiming(prev, provider, t) ==
  [p \in DOMAIN prev \cup {provider} |-> IF p = provider THEN t ELSE prev[p]]

\* UpdateImage that moves the updated slot to the end of the sequence.
UpdateImageMoveLast(prevImages, provider, image, modelId) ==
  LET others == SelectSeq(prevImages, LAMBDA item : item.provider # provider)
      mine == SelectSeq(prevImages, LAMBDA item : item.provider = provider)
  IN others \o [i \in 1..Len(mine) |->
                  [provider |-> provider, image |-> image, modelId |-> modelId]]

\* UpdateImage without the test on item.provider.
UpdateImageAll(prevImages, provider, image, modelId) ==
  [i \in 1..Len(prevImages) |->
     [provider |-> prevImages[i].provider, image |-> image, modelId |-> modelId]]

\* prevImages.map(item => item.provider === provider ? {...item, image, modelId} : item)
UpdateImage(prevImages, provider, image, modelId) ==
  [i \in 1..Len(prevImages) |->
     IF prevImages[i].provider = provider
       THEN [provider |-> prevImages[i].provider, image |-> image, modelId |-> modelId]
       ELSE prevImages[i]]

\* Does the try block of generateImage throw on this endpoint outcome?
\* fetch rejects, response.json() throws, or !response.ok.
Throws(resp) ==
  \/ resp.kind = "rejected"
  \/ resp.kind = "response" /\ (~resp.parses \/ ~resp.ok)

\* The message of the Error the catch block receives.
ErrorMessage(resp) ==
  IF resp.kind = "rejected" THEN resp.message
  ELSE IF ~resp.parses THEN "Unexpected token"
  ELSE IF resp.error # Undefined THEN resp.error
  ELSE "Server error"

\* data.image ?? null
ImageOf(resp) == IF resp.image = Undefined THEN Null ELSE resp.image

\* A generateImage whose catch block lets the failure escape.
UnitPromiseRethrow(resp) == IF Throws(resp) THEN "rejected" ELSE "fulfilled"

\* The promise generateImage returns: the whole body is inside try/catch and
\* the catch block does not rethrow, so it fulfils on every outcome.
UnitPromise(resp) == "fulfilled"

\* A race instead of a join: ready as soon as one unit has settled.
PromiseAny(unit) == \E p \in DOMAIN unit : unit[p] = "fulfilled"

\* await Promise.all(fetchPromises): resumes once every unit's promise is
\* fulfilled (no unit promise rejects, see UnitPromise).
PromiseAll(unit) == \A p \in DOMAIN unit : unit[p] = "fulfilled"

InFlight == DOMAIN rounds
Outstanding(r) == {p \in DOMAIN rounds[r].unit : rounds[r].unit[p] = "fetching"}

\* -------------------------------------------------------------------- init
Init ==
  /\ images = <<>>
  /\ errors = <<>>
  /\ timings = initializeProviderRecord
  /\ failedProviders = <<>>
  /\ isLoading = FALSE
  /\ clock = 0
  /\ rounds = <<>>
  /\ errRound = <<>>
  /\ wasReset = FALSE
  /\ discarded = FALSE

\* ----------------------------------------------------------------- actions
\* Date.now() advances.
Tick ==
  /\ clock < MaxClock
  /\ clock' = clock + 1
  /\ wasReset' = FALSE
  /\ UNCHANGED <<images, errors, timings, failedProviders, isLoading,
                 rounds, errRound, discarded>>

\* Every in-flight call sees another call (startGeneration or resetState).
Disturb(rs) == [r \in DOMAIN rs |-> [rs[r] EXCEPT !.alone = FALSE]]

\* resetState that leaves the timings as they are.
ResetValueKeepTimings ==
  [images |-> <<>>, errors |-> <<>>, timings |-> timings,
   failedProviders |-> <<>>, isLoading |-> FALSE]

\* The five cells after resetState.
ResetValue ==
  [images |-> <<>>, errors |-> <<>>, timings |-> initializeProviderRecord,
   failedProviders |-> <<>>, isLoading |-> FALSE]

resetState ==
  /\ images' = ResetValue.images
  /\ errors' = ResetValue.errors
  /\ timings' = ResetValue.timings
  /\ failedProviders' = ResetValue.failedProviders
  /\ isLoading' = ResetValue.isLoading
  /\ errRound' = <<>>
  /\ rounds' = Disturb(rounds)
  /\ wasReset' = TRUE
  /\ discarded' = FALSE
  /\ UNCHANGED clock

\* The round reset without setErrors([]).
StartValueKeepErrors(providers, providerToModel, now) ==
  [isLoading |-> TRUE,
   images |-> InitialImages(providers, providerToModel),
   errors |-> errors,
   failedProviders |-> <<>>,
   timings |-> InitialTimings(providers, now)]

\* The round reset without setFailedProviders([]).
StartValueKeepFailed(providers, providerToModel, now) ==
  [isLoading |-> TRUE,
   images |-> InitialImages(providers, providerToModel),
   errors |-> <<>>,
   failedProviders |-> failedProviders,
   timings |-> InitialTimings(providers, now)]

\* The five cells after the synchronous prefix of startGeneration.
StartValue(providers, providerToModel, now) ==
  [isLoading |-> TRUE,
   images |-> InitialImages(providers, providerToModel),
   errors |-> <<>>,
   failedProviders |-> <<>>,
   timings |-> InitialTimings(providers, now)]

\* A startGeneration that returns at once when a call is in flight.
startGenerationGuarded(r, providers, providerToModel) ==
  /\ InFlight = {}
  /\ r = 1
  /\ LET v == StartValue(providers, providerToModel, clock) IN
       /\ isLoading' = v.isLoading
       /\ images' = v.images
       /\ errors' = v.errors
       /\ failedProviders' = v.failedProviders
       /\ timings' = v.timings
  /\ errRound' = <<>>
  /\ rounds' = [q \in {r} |->
       [providers |-> providers,
        providerToModel |-> providerToModel,
        now |-> clock,
        alone |-> TRUE,
        unit |-> [p \in Range(providers) |-> "fetching"]]]
  /\ wasReset' = FALSE
  /\ discarded' = (errors # <<>>)
  /\ UNCHANGED clock

\* startGeneration up to `await Promise.all`: the reset of the aggregate
\* state and the dispatch of one generateImage per provider, each of which
\* runs synchronously up to its fetch.  The call takes the lowest free slot.
\* (The prompt only travels in the request body and is left out.)
startGeneration(r, providers, providerToModel) ==
  /\ r \notin InFlight
  /\ \A q \in 1..(r - 1) : q \in InFlight
  /\ LET v == StartValue(providers, providerToModel, clock) IN
       /\ isLoading' = v.isLoading
       /\ images' = v.images
       /\ errors' = v.errors
       /\ failedProviders' = v.failedProviders
       /\ timings' = v.timings
  /\ errRound' = <<>>
  /\ rounds' = [q \in InFlight \cup {r} |->
       IF q = r
         THEN [providers |-> providers,
               providerToModel |-> providerToModel,
               now |-> clock,
               alone |-> (InFlight = {}),
               unit |-> [p \in Range(providers) |-> "fetching"]]
         ELSE Disturb(rounds)[q]]
  /\ wasReset' = FALSE
  /\ discarded' = (errors # <<>>)
  /\ UNCHANGED clock

\* The endpoint call of unit (r, provider) comes back with resp and
\* generateImage resumes after its awaits: the rest of the try block, or the
\* catch block when the try block throws.  Nothing is read or written
\* between the two awaits, so the settlement is one step.
generateImage(r, provider, resp) ==
  /\ r \in InFlight
  /\ provider \in DOMAIN rounds[r].unit
  /\ rounds[r].unit[provider] = "fetching"
  /\ LET modelId == rounds[r].providerToModel[provider]
         startTime == rounds[r].now
     IN
       IF ~Throws(resp)
         THEN /\ timings' = SpreadTiming(timings, provider,
                                         SuccessTiming(startTime, clock))
              /\ images' = UpdateImage(images, provider, ImageOf(resp), modelId)
              /\ UNCHANGED <<failedProviders, errors, errRound>>
         ELSE /\ failedProviders' = Append(failedProviders, provider)
              /\ errors' = Append(errors, [provider |-> provider,
                                           message |-> ErrorMessage(resp)])
              /\ errRound' = Append(errRound, r)
              /\ images' = UpdateImage(images, provider, Null, modelId)
              /\ UNCHANGED timings
  /\ rounds' = [rounds EXCEPT ![r].unit[provider] = UnitPromise(resp)]
  /\ wasReset' = FALSE
  /\ UNCHANGED <<isLoading, clock, discarded>>

\* startGeneration after `await Promise.all(fetchPromises)`: the finally
\* block.
join(r) ==
  /\ r \in InFlight
  /\ PromiseAll(rounds[r].unit)
  /\ isLoading' = FALSE
  /\ rounds' = [q \in InFlight \ {r} |-> rounds[q]]
  /\ wasReset' = FALSE
  /\ UNCHANGED <<images, errors, timings, failedProviders, clock, errRound,
                 discarded>>

\* ------------------------------------------------- the rest of the application
\* The state of the two other parts modelled below, each with a
\* specification of its own: the AI generation API route (POST) and the
\* input form (InputCapture).  The hook never reads or writes it.
\* An optional value is a sequence: <<>> is undefined, <<v>> is v.
VARIABLES
  apiRoute,     \* which POST handler serves the request (1 or 2)
  apiPaywall,   \* toolConfig.paywall of the tool the request names
  apiPc,        \* the position of the POST handler
  apiCalls,     \* history: the calls the handler made for this request, in
                \* order, each with whether it returned (ok) or threw
  apiResponse,  \* the status of the response returned, if any
  apiServed,    \* the number of requests received
  credits,      \* InputCapture: the local credits state
  toolCredits,  \* InputCapture: toolConfig.credits
  formPc,       \* InputCapture: the position of handleSubmit
  seenCredits,  \* InputCapture: the `credits` the running handleSubmit closed over
  formLast      \* InputCapture, history: how the last handleSubmit call ended

apiVars == <<apiRoute, apiPaywall, apiPc, apiCalls, apiResponse, apiServed>>
formVars == <<credits, toolCredits, formPc, seenCredits, formLast>>
allVars == <<vars, apiVars, formVars>>

\* No request received yet.
ApiIdle ==
  /\ apiRoute = 1
  /\ apiPaywall = FALSE
  /\ apiPc = "idle"
  /\ apiCalls = <<>>
  /\ apiResponse = <<>>
  /\ apiServed = 0

\* The form not mounted.
FormIdle ==
  /\ credits = <<>>
  /\ toolCredits = <<>>
  /\ formPc = "unmounted"
  /\ seenCredits = <<>>
  /\ formLast = "none"

Next ==
  \/ Tick /\ UNCHANGED <<apiVars, formVars>>
  \/ resetState /\ UNCHANGED <<apiVars, formVars>>
  \/ \E r \in 1..MaxInFlight, providers \in Selections, providerToModel \in ModelMaps :
       startGeneration(r, providers, providerToModel) /\ UNCHANGED <<apiVars, formVars>>
  \/ \E r \in 1..MaxInFlight, p \in ProviderKeys, resp \in Responses :
       generateImage(r, p, resp) /\ UNCHANGED <<apiVars, formVars>>
  \/ \E r \in 1..MaxInFlight : join(r) /\ UNCHANGED <<apiVars, formVars>>

\* The application as loaded: the hook constructed, no request received, the
\* form not mounted.
AppInit == Init /\ ApiIdle /\ FormIdle

Spec == AppInit /\ [][Next]_allVars

\* The event loop runs every continuation that is ready: a startGeneration
\* whose units have all fulfilled resumes.  Nothing obliges the endpoint to
\* answer.
FairSpec == Spec /\ \A r \in 1..MaxInFlight : WF_vars(join(r))

TypeOK ==
  /\ isLoading \in BOOLEAN
  /\ clock \in 0..MaxClock
  /\ Len(errors) = Len(errRound)
  /\ DOMAIN rounds \subseteq 1..MaxInFlight

\* ------------------------------------------------------- reading the state
\* The Image Result slots of provider p, in order.
SlotsOf(imgs, p) == SelectSeq(imgs, LAMBDA item : item.provider = p)
\* What timings[p] reads: undefined when the key is missing.
TimingSlot(tms, p) == IF p \in DOMAIN tms THEN tms[p] ELSE UndefinedTiming
\* This step starts a call in slot r.
StartStep(r) == r \notin DOMAIN rounds /\ r \in DOMAIN rounds'
\* This step settles unit (r, p).
SettleStep(r, p) ==
  /\ r \in DOMAIN rounds /\ r \in DOMAIN rounds'
  /\ p \in DOMAIN rounds[r].unit
  /\ rounds[r].unit[p] = "fetching"
  /\ rounds'[r].unit[p] # "fetching"
\* This step resumes the call in slot r after its Promise.all.
JoinStep(r) == r \in DOMAIN rounds /\ r \notin DOMAIN rounds'

\* ---------------------------------------------------------------------- C1
\* C1: join semantics within one round.  For a startGeneration call that runs
\* alone (no call in flight when it starts, no other startGeneration or
\* resetState call while it is in flight): isLoading is true as long as one
\* of its units has not settled, whatever the other units have written
\* already, and isLoading turns false only in a step taken when none of its
\* units is outstanding.
C1_LoadingWhileOutstanding ==
  \A r \in InFlight :
    (rounds[r].alone /\ Outstanding(r) # {}) => isLoading

C1_FalseOnlyAfterAllSettled ==
  \A r \in InFlight :
    ( /\ rounds[r].alone
      /\ r \in DOMAIN rounds' => rounds'[r].alone
      /\ isLoading /\ ~isLoading' ) => Outstanding(r) = {}

C1_JoinSemantics ==
  /\ []C1_LoadingWhileOutstanding
  /\ [][C1_FalseOnlyAfterAllSettled]_vars

\* A call running alone, one unit settled with its image in place, the other
\* still outstanding, isLoading still true.
C1_Witness ==
  \E r \in InFlight :
    /\ rounds[r].alone
    /\ rounds[r].unit = [p \in ProviderKeys |->
                           IF p = "alpha" THEN "fulfilled" ELSE "fetching"]
    /\ \E i \in DOMAIN images :
         images[i].provider = "alpha" /\ images[i].image = "url1"
    /\ isLoading

\* ---------------------------------------------------------------------- C2
\* Every selected provider has exactly one Image Result slot and a Timing
\* slot, and either a present image or a place in failedProviders, not both.
Completeness(providers, imgs, tms, failed) ==
  \A p \in Range(providers) :
    /\ Len(SlotsOf(imgs, p)) = 1
    /\ TimingSlot(tms, p) # UndefinedTiming
    /\ (SlotsOf(imgs, p)[1].image # Null) # (p \in Range(failed))

\* C2: completeness.  For every non-empty providers input, at the step in
\* which startGeneration resolves, every provider of the call has exactly
\* one Image Result slot and one Timing slot and is in exactly one of the two
\* outcomes: image present, or in failedProviders.
C2_Completeness ==
  [][\A r \in 1..MaxInFlight :
       (JoinStep(r) /\ rounds[r].providers # <<>>) =>
         Completeness(rounds[r].providers, images', timings', failedProviders')]_vars

\* ---------------------------------------------------------------------- C3
\* C3: isolation.  The settlement of provider A's unit, success or failure,
\* in any call and under any interleaving, leaves every other provider B's
\* Image Result slots, Timing slot, membership in failedProviders and error
\* entries as they were.
C3_Isolation ==
  [][\A r \in 1..MaxInFlight, A \in ProviderKeys :
       SettleStep(r, A) =>
         \A B \in ProviderKeys \ {A} :
           /\ SlotsOf(images', B) = SlotsOf(images, B)
           /\ TimingSlot(timings', B) = TimingSlot(timings, B)
           /\ (B \in Range(failedProviders')) = (B \in Range(failedProviders))
           /\ SelectSeq(errors', LAMBDA e : e.provider = B)
                = SelectSeq(errors, LAMBDA e : e.provider = B)]_vars

\* Both providers selected by one call; alpha has failed and beta holds its
\* image and its completed timing.
C3_Witness ==
  \E r \in InFlight :
    /\ DOMAIN rounds[r].unit = ProviderKeys
    /\ rounds[r].alone
    /\ "alpha" \in Range(failedProviders)
    /\ "beta" \notin Range(failedProviders)
    /\ \E i \in DOMAIN images :
         images[i].provider = "beta" /\ images[i].image = "url1"
    /\ \E i \in DOMAIN images :
         images[i].provider = "alpha" /\ images[i].image = Null
    /\ "completionTime" \in DOMAIN TimingSlot(timings, "beta")

\* ---------------------------------------------------------------------- C4
\* No unit's promise is ever rejected: a failure stays inside generateImage.
C4_NoFailureEscapes ==
  \A r \in InFlight : \A p \in DOMAIN rounds[r].unit :
    rounds[r].unit[p] \in {"fetching", "fulfilled"}

\* The settlement of one unit leaves its sibling units where they were.
C4_SiblingsUntouched ==
  \A r \in 1..MaxInFlight, p \in ProviderKeys :
    SettleStep(r, p) =>
      \A q \in DOMAIN rounds[r].unit \ {p} :
        rounds'[r].unit[q] = rounds[r].unit[q]

\* C4: the join always completes.  No failure escapes a unit, no settlement
\* touches a sibling unit, and once every endpoint call of a startGeneration
\* call has settled, whatever the mix of successes and failures, the call
\* resolves: it leaves the calls in flight with isLoading set to false.
C4_JoinCompletes ==
  /\ []C4_NoFailureEscapes
  /\ [][C4_SiblingsUntouched]_vars
  /\ \A r \in 1..MaxInFlight :
       (r \in InFlight /\ Outstanding(r) = {}) ~> (r \notin InFlight /\ ~isLoading)

\* Every call has resolved after a round that mixed a failure and a success.
C4_Witness ==
  /\ InFlight = {}
  /\ ~isLoading
  /\ Len(errors) = 1
  /\ Len(images) = 2
  /\ \E i \in DOMAIN images : images[i].image = "url1"

\* ---------------------------------------------------------------------- C5
\* The step that starts a call leaves errors and failedProviders empty.
C5_StartClears ==
  \A r \in 1..MaxInFlight :
    StartStep(r) => (errors' = <<>> /\ failedProviders' = <<>>)

\* While a call that started with no other call in flight runs alone, up to
\* and including the state in which it resolves, every entry of errors and
\* of failedProviders was appended by one of its own units.
C5_OnlyOwnEntries ==
  \A r \in InFlight :
    rounds[r].alone =>
      /\ Len(errRound) = Len(errors)
      /\ \A i \in DOMAIN errors :
           errRound[i] = r /\ errors[i].provider \in Range(rounds[r].providers)
      /\ failedProviders = [i \in DOMAIN errors |-> errors[i].provider]
      /\ \A p \in Range(failedProviders) : rounds[r].unit[p] = "fulfilled"

\* Resolving writes neither errors nor failedProviders.
C5_JoinKeeps ==
  \A r \in 1..MaxInFlight :
    JoinStep(r) => (errors' = errors /\ failedProviders' = failedProviders)

\* C5: round isolation on error history.  A startGeneration call empties
\* errors and failedProviders in the step that dispatches its units, for
\* every provider, reselected or not; when the call was started after the
\* earlier calls had completed and runs alone, errors and failedProviders
\* hold, until and when it finishes, only entries of its own units.
C5_RoundIsolation ==
  /\ [][C5_StartClears /\ C5_JoinKeeps]_vars
  /\ []C5_OnlyOwnEntries

\* A call that found errors left by an earlier, completed call, has run alone
\* and has all its units settled, one of them failed again.
C5_Witness ==
  \E r \in InFlight :
    /\ rounds[r].alone
    /\ discarded
    /\ Outstanding(r) = {}
    /\ rounds[r].providers = <<"alpha", "beta">>
    /\ failedProviders = <<"alpha">>
    /\ errRound = <<r>>

\* ---------------------------------------------------------------------- C6
\* C6: in every reachable state a provider is in failedProviders if and only
\* if at least one entry of errors names it.
C6_FailedIffError ==
  Range(failedProviders) = {errors[i].provider : i \in DOMAIN errors}

\* A state with a failed provider and a provider that has not failed.
C6_Witness ==
  /\ Range(failedProviders) = {"beta"}
  /\ \E i \in DOMAIN errors :
       errors[i].provider = "beta" /\ errors[i].message = "rate limited"
  /\ \E i \in DOMAIN images : images[i].provider = "alpha"

\* ---------------------------------------------------------------------- C7
\* C7: in every reachable state, under any interleaving of startGeneration
\* calls, resetState calls and unit settlements, isLoading is true while some
\* dispatched unit is outstanding, and false once no call is in flight.
C7_LoadingInvariant ==
  /\ (\E r \in InFlight : Outstanding(r) # {}) => isLoading
  /\ InFlight = {} => ~isLoading

\* ---------------------------------------------------------------------- C8
\* The five cells of the hook.
Cells == <<images, errors, timings, failedProviders, isLoading>>

\* Right after resetState the cells are: no images, no errors, the
\* registry's empty record of timings, no failed providers, not loading.
C8_ResetState ==
  wasReset =>
    /\ images = <<>>
    /\ errors = <<>>
    /\ timings = initializeProviderRecord
    /\ failedProviders = <<>>
    /\ isLoading = FALSE

\* A resetState that follows a resetState changes no cell.
C8_SecondCallSame == (wasReset /\ wasReset') => Cells' = Cells

\* C8: resetState is total and idempotent.  It can be called in every state,
\* one call leaves images, errors and failedProviders empty, timings equal to
\* the Provider Registry's empty record and isLoading false, and a second
\* consecutive call leaves exactly the state of the first.
C8_ResetIdempotent ==
  /\ [](ENABLED resetState)
  /\ []C8_ResetState
  /\ [][C8_SecondCallSame]_vars

\* resetState has acted in the middle of a round: a unit is still outstanding.
C8_Witness ==
  /\ wasReset
  /\ \E r \in InFlight : Outstanding(r) # {}

\* ---------------------------------------------------------------------- C9
\* C9 as stated: the step that starts a call leaves the Image Result slot and
\* the Timing slot of every provider outside its selection as they were.
C9_UnselectedUntouched ==
  [][\A r \in 1..MaxInFlight :
       StartStep(r) =>
         \A p \in ProviderKeys \ Range(rounds'[r].providers) :
           /\ SlotsOf(images', p) = SlotsOf(images, p)
           /\ TimingSlot(timings', p) = TimingSlot(timings, p)]_vars

\* C9 amended: startGeneration replaces images and timings as a whole.  After
\* the step that starts a call, images holds exactly one slot per selected
\* provider, in selection order, with no image and the provider's model;
\* timings holds exactly the selected providers, each at {startTime: now};
\* every provider outside the selection has no Image Result slot and no
\* Timing slot, whatever an earlier round left there.
C9_RoundResetReplaces ==
  [][\A r \in 1..MaxInFlight :
       StartStep(r) =>
         LET providers == rounds'[r].providers IN
           /\ Len(images') = Len(providers)
           /\ \A i \in DOMAIN providers :
                images'[i] = [provider |-> providers[i], image |-> Null,
                              modelId |-> rounds'[r].providerToModel[providers[i]]]
           /\ DOMAIN timings' = Range(providers)
           /\ \A p \in Range(providers) : timings'[p] = [startTime |-> clock]
           /\ \A p \in ProviderKeys \ Range(providers) :
                /\ SlotsOf(images', p) = <<>>
                /\ TimingSlot(timings', p) = UndefinedTiming]_vars

\* An earlier call that selected beta is still in flight, so beta had its
\* slots; a later call has selected alpha only and beta has none left.
C9_Witness ==
  \E r, q \in InFlight :
    /\ rounds[r].providers = <<"alpha">>
    /\ "beta" \in Range(rounds[q].providers)
    /\ Outstanding(q) = Range(rounds[q].providers)
    /\ Outstanding(r) = {"alpha"}
    /\ Len(images) = 1 /\ images[1].provider = "alpha"
    /\ DOMAIN timings = {"alpha"}

\* --------------------------------------------------------------------- C10
\* The step that starts a call sets the Timing slot of every selected
\* provider to {startTime: now}, one instant for all of them.
C10_StartTimings ==
  \A r \in 1..MaxInFlight :
    StartStep(r) =>
      /\ rounds'[r].now = clock
      /\ \A p \in Range(rounds'[r].providers) :
           timings'[p] = [startTime |-> rounds'[r].now]

\* The provider's own Image Result slots hold this image and this model.
OwnSlotsHold(imgs, p, image, modelId) ==
  \A i \in DOMAIN imgs :
    imgs[i].provider = p =>
      imgs[i] = [provider |-> p, image |-> image, modelId |-> modelId]

\* A unit that succeeds records completionTime and elapsed =
\* completionTime - startTime in its Timing slot and writes the returned
\* image (null when the body has none) and its model into its own slot; it
\* appends no error.
C10_Success ==
  \A r \in 1..MaxInFlight, p \in ProviderKeys, resp \in Responses :
    (generateImage(r, p, resp) /\ resp.ok) =>
      /\ timings'[p].startTime = rounds[r].now
      /\ timings'[p].completionTime = clock
      /\ timings'[p].elapsed = timings'[p].completionTime - timings'[p].startTime
      /\ OwnSlotsHold(images', p,
                      IF resp.image = Undefined THEN Null ELSE resp.image,
                      rounds[r].providerToModel[p])
      /\ Len(images') = Len(images)
      /\ errors' = errors /\ failedProviders' = failedProviders

\* A unit that fails appends one error for its provider with the message of
\* the failure, adds the provider to failedProviders, sets its own slot to no
\* image with its model, and does not write timings: in a call running alone
\* the Timing slot stays {startTime: now}, without completionTime and
\* elapsed.
C10_Failure ==
  \A r \in 1..MaxInFlight, p \in ProviderKeys, resp \in Responses :
    (generateImage(r, p, resp) /\ ~resp.ok) =>
      /\ errors' = errors \o <<[provider |-> p, message |-> resp.error]>>
      /\ failedProviders' = failedProviders \o <<p>>
      /\ OwnSlotsHold(images', p, Null, rounds[r].providerToModel[p])
      /\ Len(images') = Len(images)
      /\ timings' = timings
      /\ rounds[r].alone => timings'[p] = [startTime |-> rounds[r].now]

\* C10: per-provider outcome recording.
C10_OutcomeRecording ==
  [][C10_StartTimings /\ C10_Success /\ C10_Failure]_vars

\* One round dispatched at instant 0 and running alone: alpha succeeded at
\* instant 1, beta failed.
C10_Witness ==
  \E r \in InFlight :
    /\ rounds[r].alone
    /\ rounds[r].providers = <<"alpha", "beta">>
    /\ timings = [p \in ProviderKeys |->
                    IF p = "alpha"
                      THEN [startTime |-> 0, completionTime |-> 1, elapsed |-> 1]
                      ELSE [startTime |-> 0]]
    /\ images = <<[provider |-> "alpha", image |-> "url1", modelId |-> "m1"],
                  [provider |-> "beta", image |-> Null, modelId |-> "m2"]>>
    /\ errors = <<[provider |-> "beta", message |-> "rate limited"]>>
    /\ failedProviders = <<"beta">>

\* --------------------------------------------------------------------- C11
\* The providers of the Image Result slots, in order.
ProvidersOf(imgs) == [i \in 1..Len(imgs) |-> imgs[i].provider]
\* s is an initial segment of t.
IsPrefix(s, t) == Len(s) <= Len(t) /\ SubSeq(t, 1, Len(s)) = s

\* While a call runs alone, and in the step in which it resolves, images
\* lists its providers in selection order, one entry per provider; no
\* settlement of any call changes the order of the slots.
C11_ImagesInSelectionOrder ==
  \A r \in InFlight : rounds[r].alone => ProvidersOf(images) = rounds[r].providers

C11_SettleKeepsOrder ==
  \A r \in 1..MaxInFlight, p \in ProviderKeys :
    SettleStep(r, p) => ProvidersOf(images') = ProvidersOf(images)

C11_FinalOrder ==
  \A r \in 1..MaxInFlight :
    (JoinStep(r) /\ rounds[r].alone) => ProvidersOf(images') = rounds[r].providers

\* Between two resets (startGeneration or resetState) errors only grows at
\* its end, and a settlement that adds an entry adds exactly one, last, for
\* the provider that settled.
C11_ErrorsAppendOnly ==
  ((\A r \in 1..MaxInFlight : ~StartStep(r)) /\ ~wasReset') =>
    /\ IsPrefix(errors, errors')
    /\ \A r \in 1..MaxInFlight, p \in ProviderKeys :
         (SettleStep(r, p) /\ errors' # errors) =>
           /\ Len(errors') = Len(errors) + 1
           /\ errors'[Len(errors')].provider = p

\* C11: order of the aggregate result.  Whatever the order in which the units
\* settle, images lists the selected providers in selection order, one entry
\* per provider, and errors is append-only within the round and lists the
\* failures in the order in which they settled.
C11_AggregateOrder ==
  /\ []C11_ImagesInSelectionOrder
  /\ [][C11_SettleKeepsOrder /\ C11_FinalOrder /\ C11_ErrorsAppendOnly]_vars

\* A call running alone for alpha then beta, both settled and both failed,
\* beta first: errors lists beta then alpha, images alpha then beta.
C11_Witness ==
  \E r \in InFlight :
    /\ rounds[r].alone
    /\ rounds[r].providers = <<"alpha", "beta">>
    /\ Outstanding(r) = {}
    /\ ProvidersOf(images) = <<"alpha", "beta">>
    /\ [i \in 1..Len(errors) |-> errors[i].provider] = <<"beta", "alpha">>

\* --------------------------------------------------------------------- C12
\* A startGeneration call is accepted whatever is in flight: for every
\* selection a start step is possible (as long as the model has a call slot
\* left), and every outstanding unit of every call can settle on every
\* outcome.
C12_NeverRejected ==
  /\ Cardinality(InFlight) < MaxInFlight =>
       \A providers \in Selections :
         ENABLED (\E r \in 1..MaxInFlight, providerToModel \in ModelMaps :
                    startGeneration(r, providers, providerToModel))
  /\ \A r \in InFlight :
       \A p \in Outstanding(r), resp \in Responses :
         ENABLED generateImage(r, p, resp)

\* The call is not queued and cancels nothing: its start step resets the
\* aggregate state at once and leaves the calls in flight with their
\* arguments, their `now` and their units as they were.
C12_StartKeepsEarlierUnits ==
  \A r \in 1..MaxInFlight :
    StartStep(r) =>
      /\ ProvidersOf(images') = rounds'[r].providers
      /\ errors' = <<>> /\ failedProviders' = <<>>
      /\ \A q \in DOMAIN rounds :
           /\ q \in DOMAIN rounds'
           /\ rounds'[q].unit = rounds[q].unit
           /\ rounds'[q].providers = rounds[q].providers
           /\ rounds'[q].now = rounds[q].now

\* The settlement of a unit of a call that has seen another call writes as
\* any other settlement does: a success puts the timing computed from its own
\* call's `now` into timings and its image into every slot of its provider,
\* a failure appends its provider to failedProviders and its entry to errors.
C12_SupersededUnitWrites ==
  \A q \in 1..MaxInFlight, p \in ProviderKeys :
    (SettleStep(q, p) /\ ~rounds[q].alone) =>
      IF errors' = errors
        THEN /\ p \in DOMAIN timings'
             /\ timings'[p] = SuccessTiming(rounds[q].now, clock)
             /\ \A i \in DOMAIN images' :
                  images'[i].provider = p =>
                    images'[i].modelId = rounds[q].providerToModel[p]
        ELSE /\ errors' = Append(errors, errors'[Len(errors')])
             /\ errors'[Len(errors')].provider = p
             /\ errRound' = Append(errRound, q)
             /\ failedProviders' = Append(failedProviders, p)

\* C12: overlapping rounds are not guarded.  A startGeneration call made
\* while an earlier call is in flight is neither rejected nor queued, the
\* earlier call's units still settle, and their completion handlers write
\* into the aggregate state the later call has reset.
C12_OverlapUnguarded ==
  /\ []C12_NeverRejected
  /\ [][C12_StartKeepsEarlierUnits /\ C12_SupersededUnitWrites]_vars

\* Call q selected alpha and beta at time 0; call r selected alpha alone at
\* time 1 while q was in flight, and its alpha unit is still outstanding.
\* The state of r's round carries what q's units wrote: alpha's image and a
\* timing with q's start time, and beta's error and failedProviders entry.
C12_Witness ==
  \E r \in InFlight, q \in InFlight :
    /\ r # q
    /\ rounds[q].providers = <<"alpha", "beta">> /\ rounds[q].now = 0
    /\ rounds[r].providers = <<"alpha">> /\ rounds[r].now = 1
    /\ Outstanding(r) = {"alpha"}
    /\ images = <<[provider |-> "alpha", image |-> "url1", modelId |-> "m1"]>>
    /\ timings = [p \in {"alpha"} |->
                    [startTime |-> 0, completionTime |-> 1, elapsed |-> 1]]
    /\ errors = <<[provider |-> "beta", message |-> "rate limited"]>>
    /\ errRound = <<q>>
    /\ failedProviders = <<"beta">>
    /\ isLoading

\* ============================================ the AI generation API route
\* Number of requests the route receives.
MaxRequests == 3

\* The two POST handlers: 1 is the Vercel AI SDK route with its static
\* toolConfig, 2 is the LangChain route that imports the tool's configuration
\* from the request's toolPath.
Routes == {1, 2}
\* What authMiddleware answers with.
AuthStatuses == {200, 401}

\* One call the handler made, and how it ended.
Call(name, throws) == [call |-> name, ok |-> ~throws]
\* The names of the calls made, in order.
CallNames(calls) == [i \in 1..Len(calls) |-> calls[i].call]

\* The position after uploadToSupabase returned, with the credits reduced
\* whatever the paywall says.
AfterUploadAlways(paywall) == "reduce"

\* if (toolConfig.paywall) { await reduceUserCredits(...) } / the same test
\* with === true: the position after uploadToSupabase returned.
AfterUpload(paywall) == IF paywall THEN "reduce" ELSE "respond"

\* The position after request.json() returned: route 2 loads the tool's
\* configuration, schema and prompt first.
AfterJson(route) == IF route = 2 THEN "import" ELSE "generate"

\* The catch block: a 500 response.
Catch ==
  /\ apiResponse' = <<500>>
  /\ apiPc' = "done"

\* One step of the try block: the call `name` is made at position `at`; when
\* it throws the catch block runs, otherwise the handler goes on at `next`.
TryStep(at, name, throws, next) ==
  /\ apiPc = at
  /\ apiCalls' = Append(apiCalls, Call(name, throws))
  /\ IF throws THEN Catch
               ELSE apiPc' = next /\ UNCHANGED apiResponse
  /\ UNCHANGED <<apiRoute, apiPaywall, apiServed>>

\* A request arrives; the handler runs up to `await authMiddleware(request)`.
POST(route, paywall) ==
  /\ apiPc \in {"idle", "done"}
  /\ apiServed < MaxRequests
  /\ apiServed' = apiServed + 1
  /\ apiRoute' = route
  /\ apiPaywall' = paywall
  /\ apiPc' = "auth"
  /\ apiCalls' = <<>>
  /\ apiResponse' = <<>>

\* authMiddleware answers; a 401 answer is returned as the response.
authMiddleware(status) ==
  /\ apiPc = "auth"
  /\ apiCalls' = Append(apiCalls, Call("authMiddleware", FALSE))
  /\ IF status = 401
       THEN apiResponse' = <<status>> /\ apiPc' = "done"
       ELSE apiPc' = "json" /\ UNCHANGED apiResponse
  /\ UNCHANGED <<apiRoute, apiPaywall, apiServed>>

\* await request.json()
requestJson(throws) == TryStep("json", "json", throws, AfterJson(apiRoute))

\* decodeURIComponent(requestBody.toolPath) and the three dynamic imports.
importTool(throws) == TryStep("import", "import", throws, "generate")

\* generateObject(...) / chatWithStructuredOutput.invoke(...)
generate(throws) == TryStep("generate", "generate", throws, "upload")

\* await uploadToSupabase(...)
uploadToSupabase(throws) ==
  TryStep("upload", "uploadToSupabase", throws, AfterUpload(apiPaywall))

\* await reduceUserCredits(email, toolConfig.credits); the evaluation of
\* user.email, which throws on a request without user, counts as the call
\* throwing.
reduceUserCredits(throws) ==
  TryStep("reduce", "reduceUserCredits", throws, "respond")

\* return new NextResponse(JSON.stringify({slug|id: supabaseResponse[0]...}),
\* {status: 200}); reading supabaseResponse[0] throws when the upload
\* returned no row.
respond(throws) ==
  /\ apiPc = "respond"
  /\ IF throws THEN Catch ELSE apiResponse' = <<200>> /\ apiPc' = "done"
  /\ UNCHANGED <<apiRoute, apiPaywall, apiCalls, apiServed>>

ApiNext ==
  \/ \E route \in Routes, paywall \in BOOLEAN :
       POST(route, paywall) /\ UNCHANGED <<vars, formVars>>
  \/ \E status \in AuthStatuses :
       authMiddleware(status) /\ UNCHANGED <<vars, formVars>>
  \/ \E throws \in BOOLEAN : requestJson(throws) /\ UNCHANGED <<vars, formVars>>
  \/ \E throws \in BOOLEAN : importTool(throws) /\ UNCHANGED <<vars, formVars>>
  \/ \E throws \in BOOLEAN : generate(throws) /\ UNCHANGED <<vars, formVars>>
  \/ \E throws \in BOOLEAN : uploadToSupabase(throws) /\ UNCHANGED <<vars, formVars>>
  \/ \E throws \in BOOLEAN : reduceUserCredits(throws) /\ UNCHANGED <<vars, formVars>>
  \/ \E throws \in BOOLEAN : respond(throws) /\ UNCHANGED <<vars, formVars>>

ApiSpec == AppInit /\ [][ApiNext]_allVars

\* --------------------------------------------------------------------- C13
\* The calls of a request that runs to its 200 response, in order.
FullOrder(route, paywall) ==
  <<"authMiddleware", "json">>
    \o (IF route = 2 THEN <<"import">> ELSE <<>>)
    \o <<"generate", "uploadToSupabase">>
    \o (IF paywall THEN <<"reduceUserCredits">> ELSE <<>>)
\* The places of the calls named `name` among the calls made.
CallsOf(name) == {i \in DOMAIN apiCalls : apiCalls[i].call = name}

\* Authentication first, then generate, store, reduce credits, each at most
\* once and the reduction only with the paywall enabled.
C13_Order == IsPrefix(CallNames(apiCalls), FullOrder(apiRoute, apiPaywall))

\* A 401 answer of the middleware is the response, returned with nothing
\* else done.
C13_Unauthorized ==
  apiResponse = <<401>> =>
    apiPc = "done" /\ CallNames(apiCalls) = <<"authMiddleware">>

\* Credits are reduced at most once, with the paywall enabled, after a
\* generation and a storage that both returned.
C13_ReduceAfterSuccess ==
  /\ Cardinality(CallsOf("reduceUserCredits")) <= 1
  /\ \A i \in CallsOf("reduceUserCredits") :
       /\ apiPaywall
       /\ \E j \in CallsOf("generate"), k \in CallsOf("uploadToSupabase") :
            j < k /\ k < i /\ apiCalls[j].ok /\ apiCalls[k].ok

\* A call that threw is the last call made and the response is 500; a 200
\* response means every step ran and returned.
C13_ErrorStops ==
  /\ \A i \in DOMAIN apiCalls :
       ~apiCalls[i].ok =>
         i = Len(apiCalls) /\ apiResponse = <<500>> /\ apiPc = "done"
  /\ apiResponse = <<200>> =>
       /\ CallNames(apiCalls) = FullOrder(apiRoute, apiPaywall)
       /\ \A i \in DOMAIN apiCalls : apiCalls[i].ok

MaxCredits == 6
\* Largest toolConfig.credits of a tool.
MaxToolCredits == 5

\* The `credits` prop: absent, or the user's balance.
InitialCredits == {<<>>} \cup {<<n>> : n \in 0..MaxCredits}
\* toolConfig.credits: absent, or the price of one generation.
ToolCredits == {<<>>} \cup {<<n>> : n \in 0..MaxToolCredits}

\* A gate that only tests credits < 1.
BlockedBelowOne(c, price) == c < 1

\* credits < toolConfig.credits || credits < 1
Blocked(c, price) == c < price \/ c < 1

\* prevCredits ? prevCredits - toolConfig.credits : undefined
\* (undefined and 0 are falsy).
Decrement(prevCredits, price) ==
  IF prevCredits # <<>> /\ prevCredits[1] # 0
    THEN <<prevCredits[1] - price>>
    ELSE <<>>

\* The page renders InputCapture: on the first load, and again after
\* window.location.reload(), with the balance the page reads then.
\* useState(initialCredits ?? undefined).
InputCapture(initialCredits, price) ==
  /\ \/ formPc = "unmounted"
     \/ formPc = "reloading" /\ price = toolCredits
  /\ credits' = initialCredits
  /\ toolCredits' = price
  /\ formPc' = "ready"
  /\ seenCredits' = <<>>
  /\ formLast' = "none"

\* handleSubmit up to `await generateResponse(formData, event)`.  The submit
\* button is disabled while `loading`, the flag generateAIResponse holds up
\* during a generation, so the form is submitted from the ready position
\* only.
handleSubmit ==
  /\ formPc = "ready"
  /\ IF credits # <<>> /\ toolCredits # <<>> /\ Blocked(credits[1], toolCredits[1])
       THEN /\ formPc' = "reloading"
            /\ formLast' = "reload"
            /\ UNCHANGED seenCredits
       ELSE /\ formPc' = "generating"
            /\ seenCredits' = credits
            /\ UNCHANGED formLast
  /\ UNCHANGED <<credits, toolCredits>>

\* generateResponse returns and handleSubmit runs to its end.
generateResponseReturns ==
  /\ formPc = "generating"
  /\ credits' = IF seenCredits # <<>> /\ toolCredits # <<>>
                  THEN Decrement(credits, toolCredits[1])
                  ELSE credits
  /\ formPc' = "ready"
  /\ formLast' = "generated"
  /\ UNCHANGED <<toolCredits, seenCredits>>

\* generateResponse throws: handleSubmit ends there, credits untouched.
generateResponseThrows ==
  /\ formPc = "generating"
  /\ formPc' = "ready"
  /\ formLast' = "threw"
  /\ UNCHANGED <<credits, toolCredits, seenCredits>>

FormNext ==
  \/ \E initialCredits \in InitialCredits, price \in ToolCredits :
       InputCapture(initialCredits, price) /\ UNCHANGED <<vars, apiVars>>
  \/ handleSubmit /\ UNCHANGED <<vars, apiVars>>
  \/ generateResponseReturns /\ UNCHANGED <<vars, apiVars>>
  \/ generateResponseThrows /\ UNCHANGED <<vars, apiVars>>

FormSpec == AppInit /\ [][FormNext]_allVars

\* --------------------------------------------------------------------- C14
\* Both the local credits and toolConfig.credits are defined.
Metered == credits # <<>> /\ toolCredits # <<>>

\* With both values defined, a submission calls generateResponse only with
\* credits >= toolConfig.credits and credits >= 1; otherwise it reloads the
\* page and leaves the credits as they are.
C14_Gate ==
  (formPc = "ready" /\ formPc' # "ready" /\ Metered) =>
    IF credits[1] >= toolCredits[1] /\ credits[1] >= 1
      THEN formPc' = "generating"
      ELSE formPc' = "reloading" /\ credits' = credits

\* A generation that returns takes exactly toolConfig.credits off the local
\* credits; one that throws takes nothing.
C14_Decrease ==
  (formPc = "generating" /\ formPc' = "ready" /\ Metered) =>
    /\ formLast' = "generated" => credits' = <<credits[1] - toolCredits[1]>>
    /\ formLast' = "threw" => credits' = credits

\* The local credits, while defined, are never negative.
C14_NonNegative == credits # <<>> => credits[1] >= 0

\* C14: the client-side credit gate of InputCapture.handleSubmit.  With the
\* local credits and toolConfig.credits both defined, generateResponse is
\* invoked only if credits >= toolConfig.credits and credits >= 1 (otherwise
\* the page is reloaded and nothing is generated); each generation that
\* returns decreases the local credits by exactly toolConfig.credits; over
\* any sequence of submissions the local credits, while defined, are never
\* negative.
C14_CreditGate ==
  /\ []C14_NonNegative
  /\ [][C14_Gate /\ C14_Decrease]_allVars

\* A generation at a price of 2 has returned, which took the credits from 4
\* to 2, and the next submission has passed the gate and is generating.
C14_Witness ==
  /\ toolCredits = <<2>>
  /\ credits = <<2>>
  /\ seenCredits = <<2>>
  /\ formPc = "generating"
  /\ formLast = "generated"

====
